---- MODULE Spec2Model ----
(***************************************************************************)
(* Git Onboard (src/git_onboard.py): an interactive menu that sequences    *)
(* calls to the external tool git and explains their output.               *)
(*                                                                         *)
(* Representation of captured text.  A text (stdout, stderr) is a sequence *)
(* of lines and a line a sequence of tokens; the token " " is whitespace.  *)
(* The empty string is the empty sequence of lines.  Python's              *)
(* str.splitlines() and "\n".join() convert between the string and this    *)
(* sequence of lines, so they do not appear as operators of their own;     *)
(* str.strip() and the "x in line" tests do.                               *)
(***************************************************************************)
EXTENDS Integers, Sequences, FiniteSets, TLC

VARIABLES
    pc,      \* where the program waits: a prompt of main_menu or of a workflow
    trace,   \* what the running workflow did so far, in order (cleared at the menu)
    cwd,     \* the process's current directory (os.getcwd / os.chdir)
    cfg,     \* the global git configuration: is user.name / user.email set
    loc,     \* the local variables of the running workflow
    rg       \* one call of run_git on its own: arguments, the tool's result, what it returned

vars == <<pc, trace, cwd, cfg, loc, rg>>

(***************************************************************************)
(* Bounds of the model.                                                    *)
(***************************************************************************)
\* the most lines a captured stdout or stderr holds
MaxLines == 2

(***************************************************************************)
(* Text: str.strip() and substring tests.                                  *)
(***************************************************************************)
CRLFText == "LF will be replaced by CRLF"

IsSpace(tok) == tok = " "

IsBlankLine(line) == \A i \in 1..Len(line) : IsSpace(line[i])

\* "needle in line": the needle is one token of the line
Contains(line, needle) == \E i \in 1..Len(line) : line[i] = needle

\* "needle in text": the needle occurs in one of the lines
TextContains(text, needle) == \E i \in 1..Len(text) : Contains(text[i], needle)

RECURSIVE lstrip_line(_)
lstrip_line(line) ==
    IF line = <<>> THEN <<>>
    ELSE IF IsSpace(Head(line)) THEN lstrip_line(Tail(line))
    ELSE line

RECURSIVE rstrip_line(_)
rstrip_line(line) ==
    IF line = <<>> THEN <<>>
    ELSE IF IsSpace(line[Len(line)]) THEN rstrip_line(SubSeq(line, 1, Len(line) - 1))
    ELSE line

RECURSIVE drop_leading_blank(_)
drop_leading_blank(text) ==
    IF text = <<>> THEN <<>>
    ELSE IF IsBlankLine(Head(text)) THEN drop_leading_blank(Tail(text))
    ELSE text

RECURSIVE drop_trailing_blank(_)
drop_trailing_blank(text) ==
    IF text = <<>> THEN <<>>
    ELSE IF IsBlankLine(text[Len(text)])
         THEN drop_trailing_blank(SubSeq(text, 1, Len(text) - 1))
    ELSE text

\* str.strip(): whitespace (blank lines included) goes from both ends of the text
strip(text) ==
    LET t == drop_trailing_blank(drop_leading_blank(text))
        n == Len(t)
    IN  IF n = 0 THEN <<>>
        ELSE IF n = 1 THEN << rstrip_line(lstrip_line(t[1])) >>
        ELSE << lstrip_line(t[1]) >> \o SubSeq(t, 2, n - 1) \o << rstrip_line(t[n]) >>

(***************************************************************************)
(* run_git (lines 33-77).                                                  *)
(***************************************************************************)
\* lines 57-62, as a bug would have it: the filter forgotten
filter_crlf_none(error) == error

\* lines 57-62: the lines of stderr that hold the CRLF warning are dropped
filter_crlf(error) ==
    IF error # <<>>
    THEN strip(SelectSeq(error, LAMBDA line : ~Contains(line, CRLFText)))
    ELSE error

\* line 77, as a bug would have it: a command that wrote to stderr counts as failed
run_git_success_quiet(returncode, error) == returncode = 0 /\ error = <<>>

\* line 77: result.returncode == 0
run_git_success(returncode, error) == returncode = 0

\* lines 64-73, as a bug would have it: stderr is always shown as an error
run_git_relay_always_error(returncode, output, error) ==
    (IF output # <<>> THEN << [kind |-> "stdout", text |-> output] >> ELSE <<>>)
    \o (IF error # <<>> THEN << [kind |-> "ERROR", text |-> error] >> ELSE <<>>)
    \o (IF output = <<>> /\ error = <<>>
        THEN << [kind |-> "no_output", text |-> <<>>] >> ELSE <<>>)

\* lines 64-73: what is printed between the two separators
run_git_relay(returncode, output, error) ==
    (IF output # <<>> THEN << [kind |-> "stdout", text |-> output] >> ELSE <<>>)
    \o (IF error # <<>> /\ returncode # 0
        THEN << [kind |-> "ERROR", text |-> error] >>
        ELSE IF error # <<>>
        THEN << [kind |-> "stderr", text |-> error] >>
        ELSE <<>>)
    \o (IF output = <<>> /\ error = <<>>
        THEN << [kind |-> "no_output", text |-> <<>>] >> ELSE <<>>)

\* lines 33-77: the tool ran `git args` and gave (returncode, stdout, stderr)
run_git(args, returncode, stdout, stderr) ==
    LET output == strip(stdout)
        error  == filter_crlf(strip(stderr))
    IN  [ success |-> run_git_success(returncode, error),
          output  |-> output,
          error   |-> error,
          printed |-> << [kind |-> "COMMAND RAN", text |-> << <<"git", args>> >>] >>
                      \o run_git_relay(returncode, output, error) ]

(***************************************************************************)
(* Paths (workflow_init, lines 129-140).  A path is a sequence of          *)
(* characters; os.path.abspath is the Windows one, for which the list of   *)
(* protected folders is written.                                           *)
(***************************************************************************)
\* the longest absolute path a relative input may produce
MaxPathLen == 12

\* D:\work
PathWork == <<"D", ":", "\\", "w", "o", "r", "k">>
\* C:\Windows
PathWindows == <<"C", ":", "\\", "W", "i", "n", "d", "o", "w", "s">>
\* the user pressed Enter
InputNone == <<>>
\* repo
InputRelative == <<"r", "e", "p", "o">>
\* C:\WINDOWS\Temp
InputWindows == <<"C", ":", "\\", "W", "I", "N", "D", "O", "W", "S", "\\", "T", "e", "m", "p">>
\* C:\Users\me\AppData
InputAppData == <<"C", ":", "\\", "U", "s", "e", "r", "s", "\\", "m", "e", "\\", "A", "p", "p", "D", "a", "t", "a">>
\* C:/Program Files/x
InputProgramFiles == <<"C", ":", "/", "P", "r", "o", "g", "r", "a", "m", " ", "F", "i", "l", "e", "s", "/", "x">>
\* d:\bin\System32
InputSystem32 == <<"d", ":", "\\", "b", "i", "n", "\\", "S", "y", "s", "t", "e", "m", "3", "2">>
\* D:\appdat
InputNearMiss == <<"D", ":", "\\", "a", "p", "p", "d", "a", "t">>

\* the directories the program may be started in
StartDirs == {PathWork, PathWindows}

\* what the user may type at "Enter the path to your project folder"
PathInputs ==
    {InputNone, InputRelative, InputWindows, InputAppData,
     InputProgramFiles, InputSystem32, InputNearMiss}

UpperCase == <<"A", "B", "C", "D", "E", "F", "G", "H", "I", "J", "K", "L", "M", "N", "O", "P", "Q", "R", "S", "T", "U", "V", "W", "X", "Y", "Z">>
LowerCase == <<"a", "b", "c", "d", "e", "f", "g", "h", "i", "j", "k", "l", "m", "n", "o", "p", "q", "r", "s", "t", "u", "v", "w", "x", "y", "z">>

lower_char(c) ==
    IF \E i \in 1..26 : UpperCase[i] = c
    THEN LowerCase[CHOOSE i \in 1..26 : UpperCase[i] = c]
    ELSE c

\* str.lower()
lower(s) == [i \in 1..Len(s) |-> lower_char(s[i])]

\* "sub in s" on characters
substring_in(sub, s) ==
    \E i \in 0..(Len(s) - Len(sub)) : SubSeq(s, i + 1, i + Len(sub)) = sub

is_absolute(path) ==
    Len(path) >= 3 /\ path[2] = ":" /\ path[3] \in {"\\", "/"}

\* os.path.normpath: forward slashes become backslashes
normpath(path) == [i \in 1..Len(path) |-> IF path[i] = "/" THEN "\\" ELSE path[i]]

\* line 134: os.path.abspath(path) in the directory dir
abspath(dir, path) ==
    IF is_absolute(path) THEN normpath(path)
    ELSE normpath(dir \o <<"\\">> \o path)

\* lines 137-138
protected ==
    << <<"\\", "w", "i", "n", "d", "o", "w", "s">>,
       <<"\\", "s", "y", "s", "t", "e", "m", "3", "2">>,
       <<"\\", "p", "r", "o", "g", "r", "a", "m", " ", "f", "i", "l", "e", "s">>,
       <<"\\", "p", "r", "o", "g", "r", "a", "m", " ", "f", "i", "l", "e", "s", " ", "(", "x", "8", "6", ")">>,
       <<"\\", "a", "p", "p", "d", "a", "t", "a">> >>

\* lines 139-140, as a bug would have it: the path is not lower-cased
is_system_path_case_sensitive(path) ==
    \E i \in 1..Len(protected) : substring_in(protected[i], path)

\* lines 139-140: any(p in path.lower() for p in protected)
is_system_path(path) ==
    \E i \in 1..Len(protected) : substring_in(protected[i], lower(path))

(***************************************************************************)
(* What a workflow does, as the events of its trace.                       *)
(***************************************************************************)
\* a git command run through run_git: shown as COMMAND RAN, its output relayed
Git(fn, cmd, ok) == [kind |-> "git", what |-> cmd, via |-> "run_git", ok |-> ok, fn |-> fn]

\* a git command run by subprocess.run directly: nothing is shown
Sub(fn, cmd, ok) == [kind |-> "git", what |-> cmd, via |-> "subprocess", ok |-> ok, fn |-> fn]

\* an explanation printed by explain() or print()
Say(fn, msg) == [kind |-> "say", what |-> msg, via |-> "print", ok |-> TRUE, fn |-> fn]

\* a change made through the os module or by writing a file
Os(fn, op) == [kind |-> "os", what |-> op, via |-> "os", ok |-> TRUE, fn |-> fn]

\* an answer the user gave at a prompt
Input(fn, answer) == [kind |-> "input", what |-> answer, via |-> "input", ok |-> TRUE, fn |-> fn]

\* lines 80-88: prompt_yes_no, for one line typed by the user
prompt_yes_no(answer) ==
    IF answer \in {"y", "yes"} THEN "yes"
    ELSE IF answer \in {"n", "no"} THEN "no"
    ELSE "again"

Answers == {"y", "yes", "n", "no", "maybe"}

At(fn, at) == [fn |-> fn, at |-> at]

\* line 1368: the workflow returned, "Press Enter to return to the menu..."
Pause == At("main_menu", "pause")

NoTool == [rc |-> 0, stdout |-> <<>>, stderr |-> <<>>]

NoLoc ==
    [ fn        |-> "",       \* the workflow main_menu called
      choice    |-> 0,        \* main_menu: choice
      message   |-> "",       \* workflow_stage_commit: message
      entry_cwd |-> <<>>,     \* the current directory when it was called
      name      |-> FALSE,    \* check_git_config: name is non-empty
      email     |-> FALSE,    \* check_git_config: email is non-empty
      path      |-> <<>>,     \* workflow_init: path
      fresh     |-> FALSE,    \* workflow_init: os.makedirs created path
      repo      |-> [branches |-> <<>>, head |-> ""],  \* the repository as git reports it
      current_branch |-> "",  \* workflow_merge: current_branch
      branch_list    |-> <<>>,  \* workflow_merge: branch_list
      other_branches |-> <<>>,  \* workflow_merge: other_branches
      merge_branch   |-> "",  \* workflow_merge: merge_branch
      porcelain |-> <<>>,     \* handle_merge_conflict: result.stdout of the re-check
      repo_root |-> <<>>,     \* workflow_readme: repo_root
      section   |-> 0,        \* workflow_readme: the sections typed so far
      file_path |-> <<>>,     \* workflow_readme: file_path
      remotes   |-> <<>>,     \* workflow_push: result.stdout of `git remote -v`
      url       |-> "",       \* workflow_push: url
      branch_name |-> <<>>,   \* workflow_branch: branch_name
      tool      |-> NoTool ]  \* what git gave to the last command whose output is read

(***************************************************************************)
(* Start of the program (lines 1375-1523).                                 *)
(***************************************************************************)
\* lines 1448-1461 and 1474, 1485: where check_git_config goes with name and email read
check_git_config_next(name, email) ==
    IF name /\ email THEN At("show_welcome", "enter")
    ELSE IF ~name THEN At("check_git_config", "name")
    ELSE At("check_git_config", "email")

\* line 1381: what subprocess.run(["git", "--version"]) may do: exit with 0, exit with
\* another code, or raise FileNotFoundError because there is no git to run
GitVersionResults == {"found", "fails", "missing"}

\* lines 1381-1384, 1514-1519: git --version, then the configuration is read
check_git_installed ==
    /\ pc = At("check_git_installed", "start")
    /\ \E result \in GitVersionResults :
        IF result = "found"
        THEN /\ trace' = trace \o
                    << Sub("check_git_installed", "--version", TRUE),
                       Sub("main", "--version", TRUE),
                       Sub("check_git_config", "config --global user.name", cfg.name),
                       Sub("check_git_config", "config --global user.email", cfg.email) >>
             /\ loc' = [loc EXCEPT !.name = cfg.name, !.email = cfg.email]
             /\ pc' = check_git_config_next(cfg.name, cfg.email)
        ELSE IF result = "fails"
        THEN /\ trace' = trace \o
                    << Sub("check_git_installed", "--version", FALSE),
                       Say("check_git_installed", "how_to_install") >>
             /\ loc' = loc
             /\ pc' = At("check_git_installed", "exit")
        ELSE /\ trace' = Append(trace, Say("main", "Traceback: FileNotFoundError"))
             /\ loc' = loc
             /\ pc' = At("main", "crashed")
    /\ UNCHANGED <<cwd, cfg, rg>>

\* lines 1438-1439: Enter, sys.exit(0)
check_git_installed_exit ==
    /\ pc = At("check_git_installed", "exit")
    /\ pc' = At("main", "exited")
    /\ UNCHANGED <<trace, cwd, cfg, loc, rg>>

\* lines 1474-1483: the name is asked until it is non-empty, then written
check_git_config_name ==
    /\ pc = At("check_git_config", "name")
    /\ \E typed \in {"", "Jane Smith"} :
        IF typed = ""
        THEN UNCHANGED <<pc, trace, cfg, loc>>
        ELSE \E written \in BOOLEAN :
            /\ trace' = trace \o
                    << Sub("check_git_config", "config --global user.name <name>", written),
                       Say("check_git_config", "Set: user.name") >>
                    \o (IF loc.email THEN << Say("check_git_config", "all_set") >> ELSE <<>>)
            /\ cfg' = [cfg EXCEPT !.name = written]
            /\ loc' = [loc EXCEPT !.name = TRUE]
            /\ pc' = IF loc.email THEN At("check_git_config", "enter")
                     ELSE At("check_git_config", "email")
    /\ UNCHANGED <<cwd, rg>>

\* lines 1485-1494: the email is asked until it is non-empty, then written
check_git_config_email ==
    /\ pc = At("check_git_config", "email")
    /\ \E typed \in {"", "jane@example.com"} :
        IF typed = ""
        THEN UNCHANGED <<pc, trace, cfg, loc>>
        ELSE \E written \in BOOLEAN :
            /\ trace' = trace \o
                    << Sub("check_git_config", "config --global user.email <email>", written),
                       Say("check_git_config", "Set: user.email"),
                       Say("check_git_config", "all_set") >>
            /\ cfg' = [cfg EXCEPT !.email = written]
            /\ loc' = [loc EXCEPT !.email = TRUE]
            /\ pc' = At("check_git_config", "enter")
    /\ UNCHANGED <<cwd, rg>>

\* line 1503 and 1522: Enter, then the welcome screen
check_git_config_enter ==
    /\ pc = At("check_git_config", "enter")
    /\ pc' = At("show_welcome", "enter")
    /\ UNCHANGED <<trace, cwd, cfg, loc, rg>>

\* lines 1318 and 1523: Enter, then the menu
show_welcome ==
    /\ pc = At("show_welcome", "enter")
    /\ pc' = At("main_menu", "menu")
    /\ trace' = <<>>
    /\ loc' = NoLoc
    /\ UNCHANGED <<cwd, cfg, rg>>

(***************************************************************************)
(* The menu (lines 1230-1368).                                             *)
(***************************************************************************)
\* lines 1230-1276
MENU_OPTIONS ==
    << "workflow_init", "workflow_status", "workflow_stage_commit",
       "workflow_readme", "workflow_push", "workflow_log", "workflow_clone",
       "workflow_branch", "workflow_merge" >>

\* what the user may type at a numbered prompt: a number, or something int() rejects
Typed(lo, hi) ==
    {[num |-> TRUE, val |-> n] : n \in lo..hi} \cup {[num |-> FALSE, val |-> 0]}

\* lines 1354-1366, as a bug would have it: the last option is out of range
menu_dispatch_short(typed) ==
    IF ~typed.num THEN "continue"
    ELSE IF typed.val = Len(MENU_OPTIONS) + 1 THEN "break"
    ELSE IF 1 <= typed.val /\ typed.val < Len(MENU_OPTIONS) THEN MENU_OPTIONS[typed.val]
    ELSE "out of range"

\* lines 1349-1366: what main_menu does with one line typed at "Pick an option"
menu_dispatch(typed) ==
    IF ~typed.num THEN "continue"
    ELSE IF typed.val = Len(MENU_OPTIONS) + 1 THEN "break"
    ELSE IF 1 <= typed.val /\ typed.val <= Len(MENU_OPTIONS) THEN MENU_OPTIONS[typed.val]
    ELSE "out of range"

\* lines 1345-1368: one line typed at "Pick an option"
main_menu ==
    /\ pc = At("main_menu", "menu")
    /\ \E typed \in Typed(0, Len(MENU_OPTIONS) + 2) :
        LET todo == menu_dispatch(typed)
        IN  IF todo = "continue"
            THEN UNCHANGED <<pc, trace, loc>>
            ELSE IF todo = "break"
            THEN /\ pc' = At("main", "exited")
                 /\ loc' = [loc EXCEPT !.choice = typed.val]
                 /\ trace' = trace
            ELSE IF todo = "out of range"
            THEN /\ pc' = Pause
                 /\ trace' = << Say("main_menu", "Please enter a number between") >>
                 /\ loc' = [loc EXCEPT !.choice = typed.val]
            ELSE /\ pc' = At(todo, "intro")
                 /\ loc' = [NoLoc EXCEPT !.fn = todo, !.entry_cwd = cwd,
                                         !.choice = typed.val]
                 /\ trace' = <<>>
    /\ UNCHANGED <<cwd, cfg, rg>>

\* line 1368: Enter, the menu is shown again
main_menu_return ==
    /\ pc = Pause
    /\ pc' = At("main_menu", "menu")
    /\ trace' = <<>>
    /\ loc' = NoLoc
    /\ UNCHANGED <<cwd, cfg, rg>>

\* the prompts of the workflows, where Ctrl-C may arrive
InWorkflow ==
    pc.fn \in {MENU_OPTIONS[i] : i \in 1..Len(MENU_OPTIONS)} \cup {"handle_merge_conflict"}

\* lines 1361-1364: KeyboardInterrupt ends the workflow
keyboard_interrupt ==
    /\ InWorkflow
    /\ trace' = Append(trace, Say("main_menu", "Interrupted. Returning to menu."))
    /\ pc' = Pause
    /\ UNCHANGED <<cwd, cfg, loc, rg>>

(***************************************************************************)
(* workflow_init (lines 104-236).                                          *)
(***************************************************************************)
\* lines 124-127: Enter, then the path is asked
workflow_init_intro ==
    /\ pc = At("workflow_init", "intro")
    /\ pc' = At("workflow_init", "path")
    /\ UNCHANGED <<trace, cwd, cfg, loc, rg>>

\* lines 171-176, as a bug would have it: the way back is forgotten
cwd_after_init_stays(original_dir, path, success) == path

\* lines 171-176: os.chdir(path), git init, and os.chdir(original_dir) when it failed
cwd_after_init(original_dir, path, success) == IF success THEN path ELSE original_dir

\* lines 159-236: path is a directory; tr is the trace so far, fresh says that
\* os.makedirs has just created path (it then holds neither .git nor .gitignore)
workflow_init_git(tr, path, fresh) ==
    \E git_dir \in (IF fresh THEN {FALSE} ELSE BOOLEAN) :
        /\ loc' = [loc EXCEPT !.path = path, !.fresh = fresh]
        /\ IF git_dir
           THEN /\ cwd' = path
                /\ trace' = tr \o << Os("workflow_init", "chdir"),
                                     Say("workflow_init", "already a Git repo") >>
                /\ pc' = Pause
           ELSE \E success \in BOOLEAN :
                IF ~success
                THEN /\ cwd' = cwd_after_init(cwd, path, FALSE)
                     /\ trace' = tr \o << Os("workflow_init", "chdir"),
                                          Git("workflow_init", "init", FALSE),
                                          Os("workflow_init", "chdir"),
                                          Say("workflow_init", "Git init failed") >>
                     /\ pc' = Pause
                ELSE \E gitignore \in (IF fresh THEN {FALSE} ELSE BOOLEAN) :
                     /\ cwd' = cwd_after_init(cwd, path, TRUE)
                     /\ IF gitignore
                        THEN /\ trace' = tr \o << Os("workflow_init", "chdir"),
                                                  Git("workflow_init", "init", TRUE),
                                                  Say("workflow_init", "Done! Git is now tracking") >>
                             /\ pc' = Pause
                        ELSE /\ trace' = tr \o << Os("workflow_init", "chdir"),
                                                  Git("workflow_init", "init", TRUE),
                                                  Say("workflow_init", "One more thing") >>
                             /\ pc' = At("workflow_init", "gitignore")

\* lines 129-157: the path is typed
workflow_init_path ==
    /\ pc = At("workflow_init", "path")
    /\ \E typed \in PathInputs :
        LET path == abspath(cwd, IF typed = <<>> THEN cwd ELSE typed)
        IN  /\ is_absolute(typed) \/ typed = <<>> \/ Len(path) <= MaxPathLen
            /\ IF is_system_path(path)
               THEN /\ trace' = Append(trace, Say("workflow_init", "system folder"))
                    /\ loc' = [loc EXCEPT !.path = path]
                    /\ pc' = Pause
                    /\ cwd' = cwd
               ELSE \E isdir \in (IF typed = <<>> THEN {TRUE} ELSE BOOLEAN) :
                    IF ~isdir
                    THEN /\ loc' = [loc EXCEPT !.path = path]
                         /\ pc' = At("workflow_init", "create")
                         /\ UNCHANGED <<trace, cwd>>
                    ELSE workflow_init_git(trace, path, FALSE)
    /\ UNCHANGED <<cfg, rg>>

\* lines 152-157: "doesn't exist. Create it?"
workflow_init_create ==
    /\ pc = At("workflow_init", "create")
    /\ \E answer \in Answers :
        LET yn == prompt_yes_no(answer)
        IN  IF yn = "yes"
            THEN workflow_init_git(trace \o << Input("workflow_init", "create: yes"),
                                               Os("workflow_init", "makedirs"),
                                               Say("workflow_init", "Created") >>,
                                   loc.path, TRUE)
            ELSE IF yn = "no"
            THEN /\ trace' = trace \o << Input("workflow_init", "create: no"),
                                         Say("workflow_init", "Cancelled.") >>
                 /\ pc' = Pause
                 /\ UNCHANGED <<cwd, loc>>
            ELSE UNCHANGED <<pc, trace, cwd, loc>>
    /\ UNCHANGED <<cfg, rg>>

\* lines 192-227: "Create a .gitignore with common defaults?"
workflow_init_gitignore ==
    /\ pc = At("workflow_init", "gitignore")
    /\ \E answer \in Answers :
        LET yn == prompt_yes_no(answer)
        IN  IF yn = "yes"
            THEN /\ trace' = trace \o << Input("workflow_init", "gitignore: yes"),
                                         Os("workflow_init", "write .gitignore"),
                                         Say("workflow_init", "Done! Git is now tracking") >>
                 /\ pc' = Pause
                 /\ loc' = loc
            ELSE IF yn = "no"
            THEN /\ trace' = trace \o << Input("workflow_init", "gitignore: no"),
                                         Say("workflow_init", "Done! Git is now tracking") >>
                 /\ pc' = Pause
                 /\ loc' = loc
            ELSE UNCHANGED <<pc, trace, loc>>
    /\ UNCHANGED <<cwd, cfg, rg>>

\* lines 91-97: is_git_repo()
is_git_repo(inside) == Sub("is_git_repo", "rev-parse --is-inside-work-tree", inside)

\* the guard, as a bug would have it: the workflow goes on to git status
NotARepo_goes_on(fn) ==
    << is_git_repo(FALSE), Say(fn, "You're not inside a Git repository."),
       Git(fn, "status", FALSE) >>

\* lines 258-260 (and 320, 446, 653, 839, 998): the explanation, then return
NotARepo(fn) == << is_git_repo(FALSE), Say(fn, "You're not inside a Git repository.") >>

\* what the user may type where a branch name is asked
BranchInputs == {"", "feat", "main", "v1.0"}

\* input(...).strip() of what the user typed, for a line of one word or of blanks
input_strip(typed) == IF typed = " " THEN "" ELSE typed

(***************************************************************************)
(* workflow_status (lines 243-295).                                        *)
(***************************************************************************)
\* a line of `git status --porcelain`: two columns of state, a space, the path
PorcelainLine(x, y) == <<x, y, " ", "f.txt">>

StatusCodes == { <<"?", "?">>, <<" ", "M">>, <<"M", " ">>, <<"A", " ">>, <<"U", "U">> }

\* what `git status --porcelain` may write
StatusPorcelains ==
    UNION { [1..n -> {PorcelainLine(c[1], c[2]) : c \in StatusCodes}] : n \in 0..MaxLines }

\* line 277: any(line.startswith("?") ...)
has_untracked(status_lines) ==
    \E i \in 1..Len(status_lines) :
        Len(status_lines[i]) >= 1 /\ status_lines[i][1] = "?"

\* line 278: any(line[1] == "M" ... if len(line) > 1)
has_modified(status_lines) ==
    \E i \in 1..Len(status_lines) :
        Len(status_lines[i]) > 1 /\ status_lines[i][2] = "M"

\* line 279: any(line[0] in "MADRC" ... if len(line) > 0)
has_staged(status_lines) ==
    \E i \in 1..Len(status_lines) :
        Len(status_lines[i]) > 0 /\ status_lines[i][1] \in {"M", "A", "D", "R", "C"}

\* lines 264-295: what is explained for the output of `git status --porcelain`
status_notes(stdout) ==
    LET status_lines == strip(stdout)
    IN  IF status_lines = <<>>
        THEN << Say("workflow_status", "Everything is clean") >>
        ELSE << Say("workflow_status", "WHAT THIS MEANS:") >>
             \o (IF has_untracked(status_lines)
                 THEN << Say("workflow_status", "Files listed as 'Untracked'") >> ELSE <<>>)
             \o (IF has_modified(status_lines)
                 THEN << Say("workflow_status", "Files listed as 'Modified'") >> ELSE <<>>)
             \o (IF has_staged(status_lines)
                 THEN << Say("workflow_status", "Files listed as 'Staged'") >> ELSE <<>>)
             \o << Say("workflow_status", "WHAT TO DO NEXT:") >>

\* lines 255-295: Enter; git status is run and explained
workflow_status ==
    /\ pc = At("workflow_status", "intro")
    /\ \E inside \in BOOLEAN :
        IF ~inside
        THEN /\ trace' = trace \o NotARepo("workflow_status")
             /\ loc' = loc
        ELSE \E success \in BOOLEAN, stdout \in {<<>>, << <<"On branch main">> >>} :
            LET ret == run_git("status", IF success THEN 0 ELSE 128, stdout, <<>>)
                tr == trace \o << is_git_repo(TRUE),
                                  Git("workflow_status", "status", ret.success) >>
            IN  IF ret.output = <<>>
                THEN /\ trace' = tr
                     /\ loc' = loc
                ELSE \E porcelain \in StatusPorcelains :
                     /\ trace' = Append(tr, Sub("workflow_status", "status --porcelain", TRUE))
                                 \o status_notes(porcelain)
                     /\ loc' = [loc EXCEPT !.porcelain = porcelain]
    /\ pc' = Pause
    /\ UNCHANGED <<cwd, cfg, rg>>

(***************************************************************************)
(* workflow_stage_commit (lines 302-421).                                  *)
(***************************************************************************)
\* lines 317-354: Enter; the status is shown, the choices are listed
workflow_stage_commit_intro ==
    /\ pc = At("workflow_stage_commit", "intro")
    /\ \E inside \in BOOLEAN :
        IF ~inside
        THEN /\ trace' = trace \o NotARepo("workflow_stage_commit")
             /\ pc' = Pause
             /\ loc' = loc
        ELSE \E porcelain \in {<<>>, << <<" ">> >>, << PorcelainLine(" ", "M") >>} :
            LET tr == trace \o << is_git_repo(TRUE),
                                  Say("workflow_stage_commit", "Step 1 of 2 - STAGING"),
                                  Git("workflow_stage_commit", "status --short", TRUE),
                                  Sub("workflow_stage_commit", "status --porcelain", TRUE) >>
            IN  /\ loc' = [loc EXCEPT !.porcelain = porcelain]
                /\ IF strip(porcelain) = <<>>
                   THEN /\ trace' = Append(tr, Say("workflow_stage_commit", "Nothing to commit"))
                        /\ pc' = Pause
                   ELSE /\ trace' = Append(tr, Say("workflow_stage_commit", "pick which files"))
                        /\ pc' = At("workflow_stage_commit", "choice")
    /\ UNCHANGED <<cwd, cfg, rg>>

\* lines 356-379: 1 stage all, 2 stage specific files, 3 return
workflow_stage_commit_choice ==
    /\ pc = At("workflow_stage_commit", "choice")
    /\ \E typed \in Typed(0, 4) :
        IF ~(typed.num /\ 1 <= typed.val /\ typed.val <= 3)
        THEN UNCHANGED <<pc, trace>>
        ELSE IF typed.val = 3
        THEN /\ trace' = Append(trace, Say("workflow_stage_commit", "Cancelled."))
             /\ pc' = Pause
        ELSE IF typed.val = 1
        THEN \E staged \in BOOLEAN :
             /\ trace' = trace \o << Say("workflow_stage_commit", "Staging all changes:"),
                                     Git("workflow_stage_commit", "add .", staged) >>
             /\ pc' = At("workflow_stage_commit", "staged")
        ELSE /\ pc' = At("workflow_stage_commit", "file")
             /\ trace' = trace
    /\ UNCHANGED <<cwd, cfg, loc, rg>>

\* lines 374-379, as a bug would have it: git add runs before the name is looked at
stage_file_unchecked(file_path, staged) ==
    << Say("workflow_stage_commit", "Staging file:"),
       Git("workflow_stage_commit", "add <file>", staged) >>
    \o (IF file_path = ""
        THEN << Say("workflow_stage_commit", "No file specified. Cancelled.") >>
        ELSE <<>>)

\* lines 374-379: git add <file> when a name was typed, "Cancelled" when not
stage_file(file_path, staged) ==
    IF file_path # ""
    THEN << Say("workflow_stage_commit", "Staging file:"),
            Git("workflow_stage_commit", "add <file>", staged) >>
    ELSE << Say("workflow_stage_commit", "No file specified. Cancelled.") >>

\* lines 373-379: the file to stage is typed
workflow_stage_commit_file ==
    /\ pc = At("workflow_stage_commit", "file")
    /\ \E typed \in {"", " ", "f.txt"}, staged \in BOOLEAN :
        LET file_path == input_strip(typed)
        IN  /\ trace' = trace \o stage_file(file_path, staged)
            /\ pc' = IF file_path # "" THEN At("workflow_stage_commit", "staged") ELSE Pause
    /\ UNCHANGED <<cwd, cfg, loc, rg>>

\* lines 382-397: Enter; what is staged is shown
workflow_stage_commit_staged ==
    /\ pc = At("workflow_stage_commit", "staged")
    /\ trace' = trace \o << Say("workflow_stage_commit", "Step 2 of 2 - COMMITTING"),
                            Git("workflow_stage_commit", "status --short", TRUE),
                            Say("workflow_stage_commit", "Now you need a commit message") >>
    /\ pc' = At("workflow_stage_commit", "message")
    /\ UNCHANGED <<cwd, cfg, loc, rg>>

\* lines 401-403, as a bug would have it: an empty message is let through
commit_allowed_always(message) == TRUE

\* lines 401-403: if not message: ... return
commit_allowed(message) == message # ""

\* lines 399-421: the commit message is typed
workflow_stage_commit_message ==
    /\ pc = At("workflow_stage_commit", "message")
    /\ \E typed \in {"", " ", "Fix login bug"} :
        LET message == input_strip(typed)
        IN  /\ loc' = [loc EXCEPT !.message = message]
            /\ IF ~commit_allowed(message)
               THEN trace' = Append(trace, Say("workflow_stage_commit",
                                               "No message entered. Cancelled."))
               ELSE \E success \in BOOLEAN :
                    trace' = trace \o << Say("workflow_stage_commit", "Creating commit:"),
                                         Git("workflow_stage_commit", "commit -m", success) >>
                             \o (IF success
                                 THEN << Say("workflow_stage_commit", "Commit created!") >>
                                 ELSE <<>>)
    /\ pc' = Pause
    /\ UNCHANGED <<cwd, cfg, rg>>

(***************************************************************************)
(* workflow_log (lines 637-668) and workflow_clone (lines 675-705).        *)
(***************************************************************************)
\* lines 650-668: Enter; the last commits are shown
workflow_log ==
    /\ pc = At("workflow_log", "intro")
    /\ \E inside \in BOOLEAN :
        IF ~inside
        THEN trace' = trace \o NotARepo("workflow_log")
        ELSE \E commits \in BOOLEAN :
            IF ~commits
            THEN trace' = trace \o << is_git_repo(TRUE),
                                      Sub("workflow_log", "log --oneline -1", FALSE),
                                      Say("workflow_log", "No commits yet.") >>
            ELSE \E success \in BOOLEAN :
                 trace' = trace \o << is_git_repo(TRUE),
                                      Sub("workflow_log", "log --oneline -1", TRUE),
                                      Say("workflow_log", "Showing recent commits"),
                                      Git("workflow_log", "log --oneline --graph -10", success) >>
    /\ pc' = Pause
    /\ UNCHANGED <<cwd, cfg, loc, rg>>

\* lines 686-689: Enter, then the URL is asked
workflow_clone_intro ==
    /\ pc = At("workflow_clone", "intro")
    /\ pc' = At("workflow_clone", "url")
    /\ UNCHANGED <<trace, cwd, cfg, loc, rg>>

\* lines 689-695: the URL is typed
workflow_clone_url ==
    /\ pc = At("workflow_clone", "url")
    /\ \E typed \in {"", " ", "https://github.com/me/repo.git"} :
        IF input_strip(typed) = ""
        THEN /\ trace' = Append(trace, Say("workflow_clone", "No URL entered. Cancelled."))
             /\ pc' = Pause
        ELSE /\ trace' = trace
             /\ pc' = At("workflow_clone", "dest")
    /\ UNCHANGED <<cwd, cfg, loc, rg>>

\* lines 695-705: the folder is typed, the repository is cloned
workflow_clone_dest ==
    /\ pc = At("workflow_clone", "dest")
    /\ \E typed \in {"", "folder"}, success \in BOOLEAN :
        trace' = trace \o << Say("workflow_clone", "Cloning:"),
                             Git("workflow_clone",
                                 IF typed = "" THEN "clone <url>" ELSE "clone <url> <dest>",
                                 success),
                             Say("workflow_clone", "If that succeeded") >>
    /\ pc' = Pause
    /\ UNCHANGED <<cwd, cfg, loc, rg>>

(***************************************************************************)
(* workflow_readme (lines 712-808).                                        *)
(***************************************************************************)
\* the directories above dir, and dir itself: where the root of its repository may be
RepoRoots(dir) ==
    {dir} \cup { SubSeq(dir, 1, n) : n \in { k \in 3..Len(dir) - 1 : dir[k + 1] = "\\" } }

\* lines 738-757: Enter; the root of the repository is looked up, the sections are asked
workflow_readme_intro ==
    /\ pc = At("workflow_readme", "intro")
    /\ \E found \in BOOLEAN :
        IF ~found
        THEN /\ trace' = trace \o << Sub("get_repo_root", "rev-parse --show-toplevel", FALSE),
                                     Say("workflow_readme",
                                         "You're not inside a Git repository.") >>
             /\ pc' = Pause
             /\ loc' = loc
        ELSE \E repo_root \in RepoRoots(cwd) :
             /\ trace' = trace \o << Sub("get_repo_root", "rev-parse --show-toplevel", TRUE),
                                     Say("workflow_readme", "Answer the following prompts.") >>
             /\ pc' = At("workflow_readme", "sections")
             /\ loc' = [loc EXCEPT !.repo_root = repo_root]
    /\ UNCHANGED <<cwd, cfg, rg>>

\* lines 750-757: project name, tagline, problem, solution, how it works, results,
\* tech stack, status
ReadmeSections == 8

\* lines 750-792: one section is typed; after the last one the preview is shown
workflow_readme_sections ==
    /\ pc = At("workflow_readme", "sections")
    /\ loc' = [loc EXCEPT !.section = loc.section + 1]
    /\ IF loc.section + 1 < ReadmeSections
       THEN UNCHANGED <<pc, trace>>
       ELSE /\ trace' = Append(trace, Say("workflow_readme", "--- README Preview ---"))
            /\ pc' = At("workflow_readme", "write")
    /\ UNCHANGED <<cwd, cfg, rg>>

ReadmeName == <<"R", "E", "A", "D", "M", "E", ".", "m", "d">>

\* line 793, as a bug would have it: the file is opened by its name, in the current directory
readme_path_in_cwd(repo_root, dir) == dir \o <<"\\">> \o ReadmeName

\* line 793: os.path.join(repo_root, "README.md"); dir is the current directory
readme_path(repo_root, dir) == repo_root \o <<"\\">> \o ReadmeName

\* lines 792-808: "Write this to README.md?"
workflow_readme_write ==
    /\ pc = At("workflow_readme", "write")
    /\ \E answer \in Answers :
        LET yn == prompt_yes_no(answer)
        IN  IF yn = "yes"
            THEN /\ trace' = trace \o << Input("workflow_readme", "write: yes"),
                                         Os("workflow_readme", "write README.md"),
                                         Say("workflow_readme", "README.md created at") >>
                 /\ loc' = [loc EXCEPT !.file_path = readme_path(loc.repo_root, cwd)]
                 /\ pc' = Pause
            ELSE IF yn = "no"
            THEN /\ trace' = trace \o << Input("workflow_readme", "write: no"),
                                         Say("workflow_readme",
                                             "Cancelled. Nothing was written.") >>
                 /\ loc' = loc
                 /\ pc' = Pause
            ELSE UNCHANGED <<pc, trace, loc>>
    /\ UNCHANGED <<cwd, cfg, rg>>

(***************************************************************************)
(* workflow_push (lines 428-630).                                          *)
(***************************************************************************)
\* what `git remote -v` may write: no remote, origin, or a remote of another name
RemoteOutputs ==
    { <<>>,
      << <<"origin", " ", "https://github.com/me/repo.git", " ", "(fetch)">>,
         <<"origin", " ", "https://github.com/me/repo.git", " ", "(push)">> >>,
      << <<"upstream", " ", "https://github.com/you/repo.git", " ", "(fetch)">>,
         <<"upstream", " ", "https://github.com/you/repo.git", " ", "(push)">> >> }

\* what `git push` may write to stderr when it fails
PushErrors ==
    { <<>>,
      << <<"error:", " ", "src refspec", " ", "main does not match any">> >>,
      << <<"!", " ", "[", "rejected", "]", " ", "main -> main (fetch first)">> >>,
      << <<"error:", " ", "src refspec", " ", "rejected", " ", "does not match any">> >>,
      << <<"remote:", " ", "Invalid username or password.">>,
         <<"fatal:", " ", "Authentication", " ", "failed">> >>,
      << <<"fatal: could not read", " ", "Username">> >>,
      << <<"fatal:", " ", "'origin' does not appear to be a git repository">> >> }

\* lines 561-630, as a bug would have it: 'rejected' is looked for before 'src refspec'
push_outcome_rejected_first(success, stderr) ==
    IF success THEN "Done! Your code is now live on GitHub."
    ELSE IF TextContains(stderr, "rejected") THEN "Push was rejected."
    ELSE IF TextContains(stderr, "src refspec") THEN "nothing to push yet"
    ELSE IF TextContains(stderr, "Authentication")
            \/ TextContains(stderr, "fatal: could not read")
    THEN "an authentication issue"
    ELSE IF stderr # <<>> THEN "Push failed with an unexpected error."
    ELSE "Push failed with an unexpected error. No error details available."

\* lines 561-630: the explanation after `git push`
push_outcome(success, stderr) ==
    IF success THEN "Done! Your code is now live on GitHub."
    ELSE IF TextContains(stderr, "src refspec") THEN "nothing to push yet"
    ELSE IF TextContains(stderr, "rejected") THEN "Push was rejected."
    ELSE IF TextContains(stderr, "Authentication")
            \/ TextContains(stderr, "fatal: could not read")
    THEN "an authentication issue"
    ELSE IF stderr # <<>> THEN "Push failed with an unexpected error."
    ELSE "Push failed with an unexpected error. No error details available."

\* lines 551-630: the current branch is read and pushed; tr is the trace so far
workflow_push_upload(tr, remotes) ==
    \E stdout \in {<<>>, << <<"feat">> >>}, rc \in {0, 1}, stderr \in PushErrors :
        LET branch == IF strip(stdout) = <<>> THEN "main" ELSE strip(stdout)[1][1]
            ret == run_git("push -u origin", rc, <<>>, stderr)
        IN  /\ trace' = tr \o << Sub("workflow_push", "branch --show-current", TRUE),
                                 Say("workflow_push", "Uploading your commits to GitHub"),
                                 Git("workflow_push", "push -u origin", ret.success),
                                 Say("workflow_push", push_outcome(ret.success, ret.error)) >>
            /\ loc' = [loc EXCEPT !.tool = [rc |-> rc, stdout |-> <<>>, stderr |-> stderr],
                                  !.current_branch = branch,
                                  !.remotes = remotes]
            /\ pc' = Pause

\* lines 494-549: the remotes are read; tr is the trace so far
workflow_push_remote(tr) ==
    \E remotes \in RemoteOutputs :
        IF strip(remotes) = <<>>
        THEN /\ trace' = tr \o << Sub("workflow_push", "remote -v", TRUE),
                                  Say("workflow_push", "Step 1 of 2 - CONNECT TO GITHUB") >>
             /\ loc' = [loc EXCEPT !.remotes = remotes]
             /\ pc' = At("workflow_push", "url")
        ELSE workflow_push_upload(
                 tr \o << Sub("workflow_push", "remote -v", TRUE),
                          Say("workflow_push", "Remote is already connected:") >>,
                 remotes)

\* lines 443-457: Enter; "you need a GitHub account"
workflow_push_intro ==
    /\ pc = At("workflow_push", "intro")
    /\ \E inside \in BOOLEAN :
        IF ~inside
        THEN /\ trace' = trace \o NotARepo("workflow_push")
             /\ pc' = Pause
        ELSE /\ trace' = trace \o << is_git_repo(TRUE),
                                     Say("workflow_push", "you need a GitHub account") >>
             /\ pc' = At("workflow_push", "account")
    /\ UNCHANGED <<cwd, cfg, loc, rg>>

\* lines 459-549: 1 I have an account, 2 I need one, 3 return
workflow_push_account ==
    /\ pc = At("workflow_push", "account")
    /\ \E typed \in Typed(0, 4) :
        IF ~(typed.num /\ 1 <= typed.val /\ typed.val <= 3)
        THEN UNCHANGED <<pc, trace, loc>>
        ELSE IF typed.val = 3
        THEN /\ trace' = Append(trace, Say("workflow_push", "Cancelled."))
             /\ pc' = Pause
             /\ loc' = loc
        ELSE IF typed.val = 2
        THEN /\ trace' = Append(trace, Say("workflow_push", "Setting Up a GitHub Account"))
             /\ pc' = At("workflow_push", "account_ready")
             /\ loc' = loc
        ELSE workflow_push_remote(trace)
    /\ UNCHANGED <<cwd, cfg, rg>>

\* lines 491-549: Enter, the account is ready
workflow_push_account_ready ==
    /\ pc = At("workflow_push", "account_ready")
    /\ workflow_push_remote(trace)
    /\ UNCHANGED <<cwd, cfg, rg>>

\* lines 527-529, as a bug would have it: an empty URL is not refused
url_given_always(url) == TRUE

\* lines 527-529: `if not url` cancels
url_given(url) == url # ""

\* lines 525-531: the URL of the GitHub repository is typed
workflow_push_url ==
    /\ pc = At("workflow_push", "url")
    /\ \E typed \in {"", " ", "https://github.com/me/repo.git"} :
        LET url == input_strip(typed)
        IN  /\ loc' = [loc EXCEPT !.url = url]
            /\ IF ~url_given(url)
               THEN /\ trace' = Append(trace, Say("workflow_push", "Cancelled."))
                    /\ pc' = Pause
               ELSE /\ trace' = Append(trace, Input("workflow_push", "url"))
                    /\ pc' = At("workflow_push", "link")
    /\ UNCHANGED <<cwd, cfg, rg>>

\* lines 531-630: Enter; the remote is added, then the branch is pushed
workflow_push_link ==
    /\ pc = At("workflow_push", "link")
    /\ \E success \in BOOLEAN :
        IF ~success
        THEN /\ trace' = trace \o << Say("workflow_push", "Step 2 of 2 - LINKING AND UPLOADING"),
                                     Git("workflow_push", "remote add origin", FALSE),
                                     Say("workflow_push", "Failed to add remote.") >>
             /\ pc' = Pause
             /\ loc' = loc
        ELSE workflow_push_upload(
                 trace \o << Say("workflow_push", "Step 2 of 2 - LINKING AND UPLOADING"),
                             Git("workflow_push", "remote add origin", TRUE) >>,
                 loc.remotes)
    /\ UNCHANGED <<cwd, cfg, rg>>

(***************************************************************************)
(* workflow_branch (lines 815-963).                                        *)
(***************************************************************************)
\* what `git checkout <name>` may write to stderr when it fails
CheckoutErrors ==
    { << <<"error:", " ", "pathspec 'x'", " ", "did not match", " ", "any file(s)">> >>,
      << <<"error:", " ", "Your local changes would be overwritten by checkout">> >> }

\* what the user may type as the name of a new branch
NewBranchInputs ==
    { <<>>, <<" ">>, <<"my-feature">>, <<" ", "my-feature", " ">>, <<"my", " ", "branch">> }

\* lines 836-857: Enter; a first commit is needed
workflow_branch_intro ==
    /\ pc = At("workflow_branch", "intro")
    /\ \E inside \in BOOLEAN :
        IF ~inside
        THEN /\ trace' = trace \o NotARepo("workflow_branch")
             /\ pc' = Pause
        ELSE \E commits \in BOOLEAN :
            IF ~commits
            THEN /\ trace' = trace \o << is_git_repo(TRUE),
                                         Sub("workflow_branch", "log --oneline -1", FALSE),
                                         Say("workflow_branch",
                                             "You need at least one commit") >>
                 /\ pc' = Pause
            ELSE /\ trace' = trace \o << is_git_repo(TRUE),
                                         Sub("workflow_branch", "log --oneline -1", TRUE) >>
                 /\ pc' = At("workflow_branch", "choice")
    /\ UNCHANGED <<cwd, cfg, loc, rg>>

\* lines 859-926: 1 create, 2 switch, 3 see all branches, 4 return
workflow_branch_choice ==
    /\ pc = At("workflow_branch", "choice")
    /\ \E typed \in Typed(0, 5) :
        IF ~(typed.num /\ 1 <= typed.val /\ typed.val <= 4)
        THEN UNCHANGED <<pc, trace>>
        ELSE IF typed.val = 4
        THEN /\ trace' = Append(trace, Say("workflow_branch", "Cancelled."))
             /\ pc' = Pause
        ELSE IF typed.val = 3
        THEN /\ trace' = trace \o << Say("workflow_branch", "Listing all branches."),
                                     Git("workflow_branch", "branch", TRUE) >>
             /\ pc' = Pause
        ELSE IF typed.val = 2
        THEN /\ trace' = trace \o << Say("workflow_branch", "Here are your current branches:"),
                                     Git("workflow_branch", "branch", TRUE) >>
             /\ pc' = At("workflow_branch", "switch")
        ELSE /\ trace' = Append(trace, Say("workflow_branch", "Name Your New Branch"))
             /\ pc' = At("workflow_branch", "create")
    /\ UNCHANGED <<cwd, cfg, loc, rg>>

\* lines 883-908: the branch to switch to is typed
workflow_branch_switch ==
    /\ pc = At("workflow_branch", "switch")
    /\ \E typed \in BranchInputs \cup {" "} :
        IF input_strip(typed) = ""
        THEN /\ trace' = Append(trace, Say("workflow_branch", "Cancelled."))
             /\ loc' = [loc EXCEPT !.branch_name = <<>>]
        ELSE \E rc \in {0, 1}, stderr \in CheckoutErrors :
            LET ret == run_git("checkout", rc, <<>>, IF rc = 0 THEN <<>> ELSE stderr)
                tr == trace \o << Say("workflow_branch", "Switching to branch"),
                                  Git("workflow_branch", "checkout", ret.success) >>
            IN  /\ loc' = [loc EXCEPT !.tool = [rc |-> rc, stdout |-> <<>>,
                                                stderr |-> IF rc = 0 THEN <<>> ELSE stderr],
                                      !.branch_name = << input_strip(typed) >>]
                /\ IF ret.success
                   THEN trace' = Append(tr, Say("workflow_branch", "You're now on branch"))
                   ELSE IF TextContains(ret.error, "did not match")
                   THEN trace' = Append(tr, Say("workflow_branch", "doesn't exist."))
                   ELSE trace' = tr
    /\ pc' = Pause
    /\ UNCHANGED <<cwd, cfg, rg>>

\* lines 930-937, as a bug would have it: a name with a space is not refused
new_branch_check_no_spaces(branch_name) ==
    IF branch_name = <<>> THEN "Cancelled."
    ELSE "Creating branch"

\* lines 930-937: an empty name cancels, a name with a space is refused
new_branch_check(branch_name) ==
    IF branch_name = <<>> THEN "Cancelled."
    ELSE IF Contains(branch_name, " ") THEN "Branch names can't have spaces."
    ELSE "Creating branch"

\* lines 928-963: the name of the new branch is typed
workflow_branch_create ==
    /\ pc = At("workflow_branch", "create")
    /\ \E typed \in NewBranchInputs :
        LET branch_name == rstrip_line(lstrip_line(typed))
        IN  /\ loc' = [loc EXCEPT !.branch_name = branch_name]
            /\ IF new_branch_check(branch_name) # "Creating branch"
               THEN trace' = Append(trace, Say("workflow_branch",
                                               new_branch_check(branch_name)))
               ELSE \E success \in BOOLEAN :
                    trace' = trace \o << Say("workflow_branch", "Creating branch"),
                                         Git("workflow_branch", "checkout -b", success) >>
                             \o (IF success
                                 THEN << Say("workflow_branch", "Branch created!") >>
                                 ELSE <<>>)
    /\ pc' = Pause
    /\ UNCHANGED <<cwd, cfg, rg>>

(***************************************************************************)
(* The repository as git reports it.                                       *)
(***************************************************************************)
\* the branch names there are, in the order `git branch` lists them
BranchNames == <<"feat", "main">>

DetachedHead == "(HEAD detached at 1a2b3c)"

IsSorted(names) ==
    \A i, j \in 1..Len(names) :
        i < j =>
            \E a, b \in 1..Len(BranchNames) :
                a < b /\ BranchNames[a] = names[i] /\ BranchNames[b] = names[j]

\* a repository: its branches, and the branch checked out ("" when HEAD is detached);
\* before the first commit there is no branch and HEAD names the branch to be born
Repos ==
    { r \in [ branches : UNION { [1..n -> {BranchNames[i] : i \in 1..Len(BranchNames)}]
                                 : n \in 0..Len(BranchNames) },
              head : {BranchNames[i] : i \in 1..Len(BranchNames)} \cup {""} ] :
        /\ IsSorted(r.branches)
        /\ IF r.branches = <<>> THEN r.head = "main"
           ELSE r.head = "" \/ \E i \in 1..Len(r.branches) : r.branches[i] = r.head }

\* lines 1003-1006: what `git branch --show-current` writes
show_current_output(repo) == IF repo.head = "" THEN <<>> ELSE << <<repo.head>> >>

\* lines 1015-1018: what `git branch` writes: two columns of mark, then the name
git_branch_output(repo) ==
    (IF repo.head = "" /\ repo.branches # <<>>
     THEN << <<"*", " ", DetachedHead>> >> ELSE <<>>)
    \o [i \in 1..Len(repo.branches) |->
            IF repo.branches[i] = repo.head
            THEN <<"*", " ", repo.branches[i]>>
            ELSE <<" ", " ", repo.branches[i]>>]

\* the text of a line that is one word ("" for the empty line)
word(line) == IF line = <<>> THEN "" ELSE line[1]

RECURSIVE lstrip_star_space(_)
\* str.lstrip("* ")
lstrip_star_space(line) ==
    IF line = <<>> THEN <<>>
    ELSE IF Head(line) \in {"*", " "} THEN lstrip_star_space(Tail(line))
    ELSE line

\* line 1007: result.stdout.strip()
parse_current(stdout) == IF strip(stdout) = <<>> THEN "" ELSE word(strip(stdout)[1])

\* line 1019: [b.strip().lstrip("* ") for b in stdout.strip().splitlines()]
parse_branch_list(stdout) ==
    LET lines == strip(stdout)
    IN  [i \in 1..Len(lines) |->
            word(lstrip_star_space(rstrip_line(lstrip_line(lines[i]))))]

(***************************************************************************)
(* workflow_merge (lines 970-1107).                                        *)
(***************************************************************************)
LineConflict == <<"CONFLICT", " ", "(content):", " ", "Merge conflict in f.txt">>
LineAutoMerge == <<"Auto-merging", " ", "CONFLICT", ".md">>
LineFatal == <<"fatal:", " ", "refusing to merge unrelated histories">>
LineCRLFOnConflictFile ==
    <<"warning:", " ", "in the working copy of", " ", "CONFLICT", ".md,", " ", CRLFText>>

\* what `git merge` may give: the exit code, stdout, stderr
MergeResults ==
    [ rc : {0, 1},
      stdout : {<<>>, <<LineConflict>>, <<LineAutoMerge>>},
      stderr : {<<>>, <<LineFatal>>, <<LineCRLFOnConflictFile, LineFatal>>} ]

\* lines 1084-1100, as a bug would have it: CONFLICT is looked for before success
merge_outcome_conflict_first(success, output, stderr) ==
    IF TextContains(output, "CONFLICT") \/ TextContains(stderr, "CONFLICT") THEN "conflict"
    ELSE IF success THEN "complete"
    ELSE "failed"

\* lines 1084-1100: the three ways on after `git merge`
merge_outcome(success, output, stderr) ==
    IF success THEN "complete"
    ELSE IF TextContains(output, "CONFLICT") \/ TextContains(stderr, "CONFLICT") THEN "conflict"
    ELSE "failed"

\* lines 995-1034: Enter; the branches are read
workflow_merge_intro ==
    /\ pc = At("workflow_merge", "intro")
    /\ \E inside \in BOOLEAN :
        IF ~inside
        THEN /\ trace' = trace \o NotARepo("workflow_merge")
             /\ pc' = Pause
             /\ loc' = loc
        ELSE \E repo \in Repos :
            LET current_branch == parse_current(show_current_output(repo))
                branch_list == parse_branch_list(git_branch_output(repo))
                tr == trace \o << is_git_repo(TRUE),
                                  Sub("workflow_merge", "branch --show-current", TRUE),
                                  Git("workflow_merge", "branch", TRUE),
                                  Sub("workflow_merge", "branch", TRUE) >>
            IN  /\ loc' = [loc EXCEPT !.repo = repo,
                                      !.current_branch = current_branch,
                                      !.branch_list = branch_list]
                /\ IF Len(branch_list) < 2
                   THEN /\ trace' = Append(tr, Say("workflow_merge", "You only have one branch."))
                        /\ pc' = Pause
                   ELSE /\ trace' = Append(tr, Say("workflow_merge", "Merge: Step 1 of 2"))
                        /\ pc' = At("workflow_merge", "target")
    /\ UNCHANGED <<cwd, cfg, rg>>

\* lines 1036-1047: "Switch to which branch?"
workflow_merge_target ==
    /\ pc = At("workflow_merge", "target")
    /\ \E target \in BranchInputs :
        IF target # "" /\ target # loc.current_branch
        THEN \E success \in BOOLEAN :
            IF ~success
            THEN /\ trace' = trace \o << Git("workflow_merge", "checkout", FALSE),
                                         Say("workflow_merge", "Failed to switch branches.") >>
                 /\ pc' = Pause
                 /\ loc' = loc
            ELSE /\ trace' = Append(trace, Git("workflow_merge", "checkout", TRUE))
                 /\ pc' = At("workflow_merge", "enter")
                 /\ loc' = [loc EXCEPT
                        !.current_branch = target,
                        !.repo.head = IF \E i \in 1..Len(loc.repo.branches) :
                                            loc.repo.branches[i] = target
                                      THEN target ELSE ""]
        ELSE /\ pc' = At("workflow_merge", "enter")
             /\ UNCHANGED <<trace, loc>>
    /\ UNCHANGED <<cwd, cfg, rg>>

\* lines 1047-1062: Enter; the other branches are listed
workflow_merge_enter ==
    /\ pc = At("workflow_merge", "enter")
    /\ trace' = Append(trace, Say("workflow_merge", "Merge: Step 2 of 2"))
    /\ loc' = [loc EXCEPT !.other_branches =
                    SelectSeq(loc.branch_list, LAMBDA b : b # loc.current_branch)]
    /\ pc' = At("workflow_merge", "pick")
    /\ UNCHANGED <<cwd, cfg, rg>>

\* lines 1110-1159: handle_merge_conflict up to "Press Enter when you've fixed the conflicts"
handle_merge_conflict_show ==
    << Say("handle_merge_conflict", "--- MERGE CONFLICT ---"),
       Git("handle_merge_conflict", "status --short", TRUE),
       Say("handle_merge_conflict", "HOW TO FIX IT") >>

\* lines 1064-1107: a number is typed, the branch is merged
workflow_merge_pick ==
    /\ pc = At("workflow_merge", "pick")
    /\ \E typed \in Typed(0, Len(BranchNames) + 2) :
        IF ~(typed.num /\ 1 <= typed.val /\ typed.val <= Len(loc.other_branches))
        THEN UNCHANGED <<pc, trace, loc>>
        ELSE \E tool \in MergeResults :
            LET merge_branch == loc.other_branches[typed.val]
                ret == run_git("merge", tool.rc, tool.stdout, tool.stderr)
                outcome == merge_outcome(ret.success, ret.output, ret.error)
                tr == Append(trace, Git("workflow_merge", "merge", ret.success))
            IN  /\ loc' = [NoLoc EXCEPT !.fn = loc.fn, !.entry_cwd = loc.entry_cwd,
                                        !.choice = loc.choice,
                                        !.current_branch = loc.current_branch,
                                        !.merge_branch = merge_branch, !.tool = tool]
                /\ IF outcome = "complete"
                   THEN /\ trace' = Append(tr, Say("workflow_merge", "Merge complete!"))
                        /\ pc' = At("workflow_merge", "delete")
                   ELSE IF outcome = "conflict"
                   THEN /\ trace' = tr \o handle_merge_conflict_show
                        /\ pc' = At("handle_merge_conflict", "fix")
                   ELSE /\ trace' = Append(tr, Say("workflow_merge", "Merge failed."))
                        /\ pc' = Pause
    /\ UNCHANGED <<cwd, cfg, rg>>

\* lines 1093-1095: "Delete the branch?" after a merge
workflow_merge_delete ==
    /\ pc = At("workflow_merge", "delete")
    /\ \E answer \in Answers :
        LET yn == prompt_yes_no(answer)
        IN  IF yn = "yes"
            THEN \E deleted \in BOOLEAN :
                /\ trace' = trace \o << Input("workflow_merge", "delete: yes"),
                                        Git("workflow_merge", "branch -d", deleted),
                                        Say("workflow_merge", "Branch deleted. Clean and tidy.") >>
                /\ pc' = Pause
                /\ loc' = loc
            ELSE IF yn = "no"
            THEN /\ trace' = Append(trace, Input("workflow_merge", "delete: no"))
                 /\ pc' = Pause
                 /\ loc' = loc
            ELSE UNCHANGED <<pc, trace, loc>>
    /\ UNCHANGED <<cwd, cfg, rg>>

(***************************************************************************)
(* handle_merge_conflict (lines 1110-1223).                                *)
(***************************************************************************)
ConflictCodes == { <<"U", "U">>, <<"A", "A">>, <<"D", "U">>, <<" ", "M">> }

\* what `git status --porcelain` may write at the re-check
ConflictPorcelains ==
    UNION { [1..n -> {PorcelainLine(c[1], c[2]) : c \in ConflictCodes}] : n \in 0..MaxLines }

\* str.startswith for a prefix of two characters
startswith2(line, x, y) == Len(line) >= 2 /\ line[1] = x /\ line[2] = y

\* lines 1178-1181, as a bug would have it: only UU is looked for
has_conflicts_uu_only(stdout) ==
    \E i \in 1..Len(strip(stdout)) : startswith2(strip(stdout)[i], "U", "U")

\* lines 1178-1181
has_conflicts(stdout) ==
    \E i \in 1..Len(strip(stdout)) :
        \/ startswith2(strip(stdout)[i], "U", "U")
        \/ startswith2(strip(stdout)[i], "A", "A")

\* lines 1159-1194: Enter; the status is checked again
handle_merge_conflict_fix ==
    /\ pc = At("handle_merge_conflict", "fix")
    /\ \E porcelain \in ConflictPorcelains :
        LET tr == trace \o << Input("handle_merge_conflict", "fixed"),
                              Say("handle_merge_conflict", "Let's check the status"),
                              Git("handle_merge_conflict", "status --short", TRUE),
                              Sub("handle_merge_conflict", "status --porcelain", TRUE) >>
        IN  /\ loc' = [loc EXCEPT !.porcelain = porcelain, !.tool = NoTool]
            /\ IF has_conflicts(porcelain)
               THEN /\ trace' = Append(tr, Say("handle_merge_conflict",
                                               "still unresolved conflicts"))
                    /\ pc' = Pause
               ELSE /\ trace' = Append(tr, Say("handle_merge_conflict", "Looks good!"))
                    /\ pc' = At("handle_merge_conflict", "stage")
    /\ UNCHANGED <<cwd, cfg, rg>>

\* lines 1197-1200, as a bug would have it: the commit comes before the staging
stage_and_commit_swapped(staged, committed) ==
    << Git("handle_merge_conflict", "commit -m", committed),
       Git("handle_merge_conflict", "add .", staged) >>

\* lines 1197-1200: git add ., then git commit -m
stage_and_commit(staged, committed) ==
    << Git("handle_merge_conflict", "add .", staged),
       Git("handle_merge_conflict", "commit -m", committed) >>

\* lines 1196-1219: "Stage all resolved files and complete the merge?"
handle_merge_conflict_stage ==
    /\ pc = At("handle_merge_conflict", "stage")
    /\ \E answer \in Answers :
        LET yn == prompt_yes_no(answer)
        IN  IF yn = "yes"
            THEN \E staged \in BOOLEAN, success \in BOOLEAN :
                LET tr == Append(trace, Input("handle_merge_conflict", "stage: yes"))
                          \o stage_and_commit(staged, success)
                IN  /\ loc' = loc
                    /\ IF success
                       THEN /\ trace' = Append(tr, Say("handle_merge_conflict",
                                                       "Merge conflict resolved!"))
                            /\ pc' = At("handle_merge_conflict", "delete")
                       ELSE /\ trace' = tr
                            /\ pc' = Pause
            ELSE IF yn = "no"
            THEN /\ trace' = trace \o << Input("handle_merge_conflict", "stage: no"),
                                         Say("handle_merge_conflict",
                                             "Merge left in progress.") >>
                 /\ pc' = At("handle_merge_conflict", "cancel")
                 /\ loc' = loc
            ELSE UNCHANGED <<pc, trace, loc>>
    /\ UNCHANGED <<cwd, cfg, rg>>

\* lines 1213-1215: "Delete the branch?" after the merge commit
handle_merge_conflict_delete ==
    /\ pc = At("handle_merge_conflict", "delete")
    /\ \E answer \in Answers :
        LET yn == prompt_yes_no(answer)
        IN  IF yn = "yes"
            THEN \E deleted \in BOOLEAN :
                /\ trace' = trace \o << Input("handle_merge_conflict", "delete: yes"),
                                        Git("handle_merge_conflict", "branch -d", deleted),
                                        Say("handle_merge_conflict", "Branch deleted.") >>
                /\ pc' = Pause
                /\ loc' = loc
            ELSE IF yn = "no"
            THEN /\ trace' = Append(trace, Input("handle_merge_conflict", "delete: no"))
                 /\ pc' = Pause
                 /\ loc' = loc
            ELSE UNCHANGED <<pc, trace, loc>>
    /\ UNCHANGED <<cwd, cfg, rg>>

\* lines 1221-1223, as a bug would have it: the merge is said cancelled, git is not called
cancel_merge_forgotten(aborted) ==
    << Say("handle_merge_conflict", "Merge cancelled.") >>

\* lines 1221-1223: git merge --abort, then "Merge cancelled."
cancel_merge(aborted) ==
    << Git("handle_merge_conflict", "merge --abort", aborted),
       Say("handle_merge_conflict", "Merge cancelled.") >>

\* lines 1221-1223: "Cancel the merge entirely?"
handle_merge_conflict_cancel ==
    /\ pc = At("handle_merge_conflict", "cancel")
    /\ \E answer \in Answers :
        LET yn == prompt_yes_no(answer)
        IN  IF yn = "yes"
            THEN \E aborted \in BOOLEAN :
                /\ trace' = Append(trace, Input("handle_merge_conflict", "cancel: yes"))
                            \o cancel_merge(aborted)
                /\ pc' = Pause
                /\ loc' = loc
            ELSE IF yn = "no"
            THEN /\ trace' = Append(trace, Input("handle_merge_conflict", "cancel: no"))
                 /\ pc' = Pause
                 /\ loc' = loc
            ELSE UNCHANGED <<pc, trace, loc>>
    /\ UNCHANGED <<cwd, cfg, rg>>

(***************************************************************************)
(* The program.                                                            *)
(***************************************************************************)
NoCall == [at |-> "idle", args |-> "", tool |-> NoTool, ret |-> run_git("", 0, <<>>, <<>>)]

Init ==
    /\ pc = At("check_git_installed", "start")
    /\ trace = <<>>
    /\ cwd \in StartDirs
    /\ cfg \in [name : BOOLEAN, email : BOOLEAN]
    /\ loc = NoLoc
    /\ rg = NoCall

Next ==
    \/ workflow_status
    \/ workflow_stage_commit_intro
    \/ workflow_stage_commit_choice
    \/ workflow_stage_commit_file
    \/ workflow_stage_commit_staged
    \/ workflow_stage_commit_message
    \/ workflow_log
    \/ workflow_clone_intro
    \/ workflow_clone_url
    \/ workflow_clone_dest
    \/ workflow_readme_intro
    \/ workflow_readme_sections
    \/ workflow_readme_write
    \/ workflow_push_intro
    \/ workflow_push_account
    \/ workflow_push_account_ready
    \/ workflow_push_url
    \/ workflow_push_link
    \/ workflow_branch_intro
    \/ workflow_branch_choice
    \/ workflow_branch_switch
    \/ workflow_branch_create
    \/ check_git_installed
    \/ check_git_installed_exit
    \/ check_git_config_name
    \/ check_git_config_email
    \/ check_git_config_enter
    \/ show_welcome
    \/ main_menu
    \/ main_menu_return
    \/ keyboard_interrupt
    \/ workflow_init_intro
    \/ workflow_init_path
    \/ workflow_init_create
    \/ workflow_init_gitignore
    \/ workflow_merge_intro
    \/ workflow_merge_target
    \/ workflow_merge_enter
    \/ workflow_merge_pick
    \/ workflow_merge_delete
    \/ handle_merge_conflict_fix
    \/ handle_merge_conflict_stage
    \/ handle_merge_conflict_delete
    \/ handle_merge_conflict_cancel

Spec == Init /\ [][Next]_vars

(***************************************************************************)
(* run_git on its own: every result the tool may give to one call.         *)
(***************************************************************************)
LineCRLF == <<"warning:", " ", CRLFText>>
LineBlank == <<" ">>
LineModified == <<" ", "M", " ", "f.txt">>

\* the lines git may write
RunGitLines == {LineBlank, LineCRLF, LineFatal, LineModified}

\* what the tool may write to stdout or to stderr
RunGitTexts == UNION { [1..n -> RunGitLines] : n \in 0..MaxLines }

\* the exit codes of git: success, failure, fatal error
ReturnCodes == {0, 1, 128}

\* lines 40-77: one call of run_git, with what subprocess.run gave
run_git_call ==
    /\ rg.at = "idle"
    /\ \E args \in {"status", "add ."}, returncode \in ReturnCodes,
          stdout \in RunGitTexts, stderr \in RunGitTexts :
        rg' = [at |-> "returned", args |-> args,
               tool |-> [rc |-> returncode, stdout |-> stdout, stderr |-> stderr],
               ret |-> run_git(args, returncode, stdout, stderr)]
    /\ UNCHANGED <<pc, trace, cwd, cfg, loc>>

\* line 77: the caller has the triple, the next call may come
run_git_return ==
    /\ rg.at = "returned"
    /\ rg' = NoCall
    /\ UNCHANGED <<pc, trace, cwd, cfg, loc>>

InitRunGit ==
    /\ pc = At("run_git", "call")
    /\ trace = <<>>
    /\ cwd = PathWork
    /\ cfg = [name |-> TRUE, email |-> TRUE]
    /\ loc = NoLoc
    /\ rg = NoCall

NextRunGit ==
    \/ run_git_call
    \/ run_git_return

SpecRunGit == InitRunGit /\ [][NextRunGit]_vars

(***************************************************************************)
(* Properties of run_git.                                                  *)
(***************************************************************************)
\* the kinds of what run_git printed between the separators
PrintedKinds == { rg.ret.printed[i].kind : i \in 1..Len(rg.ret.printed) }

\* what run_git printed under one kind
PrintedAs(kind) ==
    { rg.ret.printed[i].text : i \in { j \in 1..Len(rg.ret.printed) :
                                           rg.ret.printed[j].kind = kind } }

\* C6: the first element of the triple run_git returns is True exactly when the
\* exit code of the command is 0, whatever stdout and stderr hold.
C6_SuccessIsExitCodeZero ==
    rg.at = "returned" => (rg.ret.success <=> rg.tool.rc = 0)

\* a command that exited with 0 and wrote to stderr only
C6_Witness ==
    /\ rg.at = "returned"
    /\ rg.tool.rc = 0
    /\ rg.tool.stderr = <<LineFatal>>
    /\ rg.tool.stdout = <<>>
    /\ rg.ret.success

C8_CapturedOutputIsRelayed ==
    rg.at = "returned" =>
        /\ rg.tool.stdout # <<>> => PrintedAs("stdout") # {}
        /\ "no_output" \in PrintedKinds <=> (rg.tool.stdout = <<>> /\ rg.ret.error = <<>>)

\* C8, amended: stdout, stripped of the whitespace around it, is printed when it is not
\* empty; stderr, stripped and filtered, is printed when it is not empty, with ERROR:
\* exactly when the exit code is not 0; "(no output)" is printed exactly when both are
\* empty.
C8_StrippedOutputIsRelayed ==
    rg.at = "returned" =>
        LET output == strip(rg.tool.stdout)
            error  == rg.ret.error
        IN  /\ rg.ret.printed[1].kind = "COMMAND RAN"
            /\ output # <<>> => PrintedAs("stdout") = {output}
            /\ output = <<>> => PrintedAs("stdout") = {}
            /\ (error # <<>> /\ rg.tool.rc # 0) =>
                    PrintedAs("ERROR") = {error} /\ PrintedAs("stderr") = {}
            /\ (error # <<>> /\ rg.tool.rc = 0) =>
                    PrintedAs("stderr") = {error} /\ PrintedAs("ERROR") = {}
            /\ error = <<>> => PrintedAs("stderr") = {} /\ PrintedAs("ERROR") = {}
            /\ "no_output" \in PrintedKinds <=> (output = <<>> /\ error = <<>>)

\* git wrote a blank line to stdout and the CRLF warning to stderr: "(no output)"
C8_Witness ==
    /\ rg.at = "returned"
    /\ rg.tool.rc = 0
    /\ rg.tool.stdout = <<LineBlank>>
    /\ rg.tool.stderr = <<LineCRLF>>
    /\ PrintedKinds = {"COMMAND RAN", "no_output"}

(***************************************************************************)
(* Properties of the workflows.                                            *)
(***************************************************************************)
TraceHas(e) == \E i \in 1..Len(trace) : trace[i] = e

Said(fn, msg) == TraceHas(Say(fn, msg))

Answered(fn, answer) == TraceHas(Input(fn, answer))

\* the git commands of one kind that fn ran, by any way
Ran(fn, cmd) == \E i \in 1..Len(trace) :
    trace[i].kind = "git" /\ trace[i].fn = fn /\ trace[i].what = cmd

Interrupted == Said("main_menu", "Interrupted. Returning to menu.")

IsPrefix(a, b) == Len(a) <= Len(b) /\ a = SubSeq(b, 1, Len(a))

\* the steps of handle_merge_conflict so far: its git commands and the wait for the user
WalkthroughSteps ==
    LET steps == SelectSeq(trace, LAMBDA e :
                     /\ e.fn = "handle_merge_conflict"
                     /\ e.kind = "git" \/ (e.kind = "input" /\ e.what = "fixed"))
    IN  [i \in 1..Len(steps) |-> steps[i].what]

WalkToCommit ==
    << "status --short", "fixed", "status --short", "status --porcelain",
       "add .", "commit -m", "branch -d" >>

WalkToAbort ==
    << "status --short", "fixed", "status --short", "status --porcelain", "merge --abort" >>

\* C1: at every moment the steps handle_merge_conflict has taken are the first steps of
\* the walk: status --short, the wait for the user, status --short, status --porcelain,
\* then add . and commit (and the deletion of the merged branch), or merge --abort.
\* No step comes twice or before its turn.
C1_WalkthroughOrder ==
    IsPrefix(WalkthroughSteps, WalkToCommit) \/ IsPrefix(WalkthroughSteps, WalkToAbort)

\* the walk was taken to the commit
C1_Witness ==
    /\ pc = Pause
    /\ WalkthroughSteps = SubSeq(WalkToCommit, 1, 6)
    /\ Said("handle_merge_conflict", "Merge conflict resolved!")

WalkthroughEntered == Said("handle_merge_conflict", "--- MERGE CONFLICT ---")

Finalized == TraceHas(Git("handle_merge_conflict", "commit -m", TRUE))

AbortRun == Ran("handle_merge_conflict", "merge --abort")

\* C2 as the specification states it: when the walkthrough has returned, the merge
\* commit was created or git merge --abort was run.
C2_EndsFinalizedOrAborted ==
    (pc = Pause /\ WalkthroughEntered) => (Finalized \/ AbortRun)

\* C2, amended: the walkthrough returns with the merge finalized or with merge --abort
\* run, never both, unless the re-check found conflicts, the commit failed, the user
\* declined both to stage and to cancel, or the user interrupted before answering:
\* in exactly these cases it returns with the merge still in progress.
C2_EndsFinalizedAbortedOrInProgress ==
    (pc = Pause /\ WalkthroughEntered) =>
        /\ ~(Finalized /\ AbortRun)
        /\ ~(Finalized \/ AbortRun) <=>
              \/ Said("handle_merge_conflict", "still unresolved conflicts")
              \/ TraceHas(Git("handle_merge_conflict", "commit -m", FALSE))
              \/ Answered("handle_merge_conflict", "cancel: no")
              \/ /\ Interrupted
                 /\ ~Answered("handle_merge_conflict", "stage: yes")
                 /\ ~Answered("handle_merge_conflict", "cancel: yes")
        /\ Finalized => Ran("handle_merge_conflict", "add .")
        /\ AbortRun => Answered("handle_merge_conflict", "stage: no")

\* the user declined to stage and declined to cancel: the merge stays in progress
C2_Witness ==
    /\ pc = Pause
    /\ WalkthroughEntered
    /\ Answered("handle_merge_conflict", "stage: no")
    /\ Answered("handle_merge_conflict", "cancel: no")
    /\ ~Finalized
    /\ ~AbortRun

Rechecked == TraceHas(Sub("handle_merge_conflict", "status --porcelain", TRUE))

\* a line of the output with the prefix UU or AA
HasUnmergedLine(stdout) ==
    \E i \in 1..Len(stdout) :
        /\ Len(stdout[i]) >= 2
        /\ <<stdout[i][1], stdout[i][2]>> \in { <<"U", "U">>, <<"A", "A">> }

\* C3: when the output of the re-check's git status --porcelain has a line that starts
\* with UU or AA, the walkthrough tells the user that conflicts remain and returns;
\* it runs none of git add, git commit, git merge --abort, git branch -d.
C3_ConflictsRemainStopsTheWalk ==
    (Rechecked /\ HasUnmergedLine(loc.porcelain)) =>
        /\ pc = Pause
        /\ Said("handle_merge_conflict", "still unresolved conflicts")
        /\ trace[Len(trace)] = Say("handle_merge_conflict", "still unresolved conflicts")
        /\ ~Ran("handle_merge_conflict", "add .")
        /\ ~Ran("handle_merge_conflict", "commit -m")
        /\ ~Ran("handle_merge_conflict", "merge --abort")
        /\ ~Ran("handle_merge_conflict", "branch -d")

\* the re-check found a modified file and a file added by both sides
C3_Witness ==
    /\ Rechecked
    /\ loc.porcelain = << PorcelainLine(" ", "M"), PorcelainLine("A", "A") >>
    /\ pc = Pause

\* git merge has run and its result is the last one read
MergeRan ==
    /\ loc.fn = "workflow_merge"
    /\ Ran("workflow_merge", "merge")
    /\ ~Rechecked

MergeComplete == Said("workflow_merge", "Merge complete!")

MergeFailed == Said("workflow_merge", "Merge failed.")

StateChanging ==
    { "init", "add .", "add <file>", "commit -m", "checkout", "checkout -b", "branch -d",
      "merge", "merge --abort", "remote add origin", "push -u origin",
      "clone <url>", "clone <url> <dest>",
      "config --global user.name <name>", "config --global user.email <email>" }

\* C5: every state-changing git command that ran was run through run_git, which shows
\* its command line and relays its output.
C5_StateChangesThroughRunGit ==
    \A i \in 1..Len(trace) :
        (trace[i].kind = "git" /\ trace[i].what \in StateChanging) =>
            trace[i].via = "run_git"

\* C9: when a workflow has returned, every state-changing command it ran through run_git
\* that exited non-zero is followed by an explanation.
C9_FailureIsExplained ==
    (pc = Pause /\ ~Interrupted) =>
        \A i \in 1..Len(trace) :
            ( /\ trace[i].kind = "git"
              /\ trace[i].via = "run_git"
              /\ trace[i].what \in StateChanging
              /\ ~trace[i].ok ) =>
                \E j \in (i + 1)..Len(trace) : trace[j].kind = "say"

\* the protected fragments, looked for in the lower-cased absolute path
HasProtectedFragment(path) ==
    \E frag \in { protected[i] : i \in 1..Len(protected) } : substring_in(frag, lower(path))

\* C10: when the absolute path workflow_init made of the input holds a protected
\* fragment in lower case, the workflow has returned and has made no directory, changed
\* no directory, run no git init and written no .gitignore; a path with no protected
\* fragment is not rejected as a system folder.
C10_SystemDirectoryGuard ==
    (loc.fn = "workflow_init" /\ loc.path # <<>>) =>
        IF HasProtectedFragment(loc.path)
        THEN /\ pc = Pause
             /\ cwd = loc.entry_cwd
             /\ trace = << Say("workflow_init", "system folder") >>
        ELSE ~Said("workflow_init", "system folder")

\* a path under C:\WINDOWS, in upper case, is rejected
C10_Witness ==
    /\ loc.fn = "workflow_init"
    /\ loc.path = InputWindows
    /\ pc = Pause
    /\ Said("workflow_init", "system folder")

\* the workflows that need a repository
GuardedWorkflows ==
    { "workflow_status", "workflow_stage_commit", "workflow_push", "workflow_log",
      "workflow_branch", "workflow_merge", "workflow_readme" }

\* the question "is this a repository?" as the workflow fn asks it, with its answer
GuardEvent(fn, inside) ==
    IF fn = "workflow_readme"
    THEN Sub("get_repo_root", "rev-parse --show-toplevel", inside)
    ELSE is_git_repo(inside)

\* C11: each of the seven workflows asks first whether it is inside a repository; when
\* it is not, the workflow prints the explanation and returns: the question and the
\* explanation are all it did, no further git command, no file written.
C11_RepositoryGuard ==
    (loc.fn \in GuardedWorkflows /\ trace # <<>> /\ trace[1] # Say("main_menu",
                                                 "Interrupted. Returning to menu.")) =>
        /\ trace[1] \in { GuardEvent(loc.fn, inside) : inside \in BOOLEAN }
        /\ trace[1] = GuardEvent(loc.fn, FALSE) =>
              /\ pc = Pause
              /\ trace = << GuardEvent(loc.fn, FALSE),
                            Say(loc.fn, "You're not inside a Git repository.") >>

\* workflow_merge outside a repository
C11_Witness ==
    /\ pc = Pause
    /\ loc.fn = "workflow_merge"
    /\ trace = NotARepo("workflow_merge")

ReadmeWritten == TraceHas(Os("workflow_readme", "write README.md"))

\* C12: README.md is written only after the user answered yes to the confirmation, and
\* then at the root of the repository that get_repo_root returned, also from a
\* subdirectory; after the answer no, or outside a repository, no file is written.
C12_ReadmeAtRepoRoot ==
    loc.fn = "workflow_readme" =>
        /\ ReadmeWritten =>
              /\ Answered("workflow_readme", "write: yes")
              /\ TraceHas(Sub("get_repo_root", "rev-parse --show-toplevel", TRUE))
              /\ loc.repo_root \in RepoRoots(cwd)
              /\ loc.file_path = loc.repo_root \o <<"\\">> \o ReadmeName
        /\ Answered("workflow_readme", "write: yes") => ReadmeWritten
        /\ Answered("workflow_readme", "write: no") => ~ReadmeWritten
        /\ TraceHas(Sub("get_repo_root", "rev-parse --show-toplevel", FALSE)) =>
              ~ReadmeWritten /\ loc.file_path = <<>>

\* the program runs in D:\work\repo, the repository is D:\work: README.md goes to D:\work
C12_Witness ==
    /\ ReadmeWritten
    /\ cwd = PathWork \o <<"\\">> \o InputRelative
    /\ loc.repo_root = PathWork
    /\ loc.file_path = PathWork \o <<"\\">> \o ReadmeName

\* C13: check_git_installed returns True to its caller in every execution: it never ends
\* the program in place of returning, neither after the installation guide nor by an
\* exception.
C13_AlwaysReturnsTrue ==
    pc.fn = "main" =>
        /\ ~TraceHas(Sub("check_git_installed", "--version", FALSE))
        /\ ~Said("main", "Traceback: FileNotFoundError")

\* C14: when check_git_config has returned, user.name and user.email are both set in the
\* global configuration, so that check_git_config, run again, returns at once: it asks
\* nothing and writes nothing.
C14_SetupIsOneTime ==
    pc = At("show_welcome", "enter") =>
        /\ cfg.name /\ cfg.email
        /\ check_git_config_next(cfg.name, cfg.email) = At("show_welcome", "enter")

Menu == At("main_menu", "menu")

\* one step of the program, seen from the menu
MenuDispatchStep ==
    /\ (pc = Menu /\ pc' # pc) =>
          \/ /\ loc'.choice \in 1..9
             /\ pc' = At(MENU_OPTIONS[loc'.choice], "intro")
             /\ loc'.fn = MENU_OPTIONS[loc'.choice]
          \/ /\ loc'.choice = 10
             /\ pc' = At("main", "exited")
             /\ loc'.fn = ""
          \/ /\ loc'.choice \notin 1..10
             /\ pc' = Pause
             /\ loc'.fn = ""
    /\ (pc = Menu /\ pc' = pc) => UNCHANGED vars
    /\ ((InWorkflow \/ pc = Pause) /\ pc' # pc) =>
          /\ pc'.at # "intro"
          /\ pc = Pause => pc' = Menu
          /\ pc' # Menu =>
                /\ loc'.fn = loc.fn
                /\ loc'.choice = loc.choice
                /\ pc'.fn \in {loc.fn, "main_menu"} \cup
                       (IF loc.fn = "workflow_merge" THEN {"handle_merge_conflict"} ELSE {})

\* C15: an integer n from 1 to 9 typed at the menu starts the n-th workflow of
\* MENU_OPTIONS, which runs once, alone, until the menu is shown again; 10 ends the
\* program with no workflow run; any other integer runs no workflow and leads back to
\* the menu; input that is no number leaves the menu as it is.
C15_MenuDispatch == [][MenuDispatchStep]_vars

\* 9 was typed: workflow_merge starts
C15_Witness ==
    /\ pc = At("workflow_merge", "intro")
    /\ loc.choice = 9
    /\ loc.fn = MENU_OPTIONS[9]

\* the explanations workflow_push has for the result of git push
PushExplanations ==
    { "Done! Your code is now live on GitHub.", "nothing to push yet", "Push was rejected.",
      "an authentication issue", "Push failed with an unexpected error.",
      "Push failed with an unexpected error. No error details available." }

\* the explanations of git push printed so far
PushExplained ==
    { i \in 1..Len(trace) : /\ trace[i].kind = "say"
                            /\ trace[i].fn = "workflow_push"
                            /\ trace[i].what \in PushExplanations }

\* C16: after git push exactly one explanation is printed, by the first rule that
\* matches: success; 'src refspec' in stderr; 'rejected' in stderr; 'Authentication' or
\* 'fatal: could not read' in stderr; otherwise the generic text, with the stderr or,
\* when stderr is empty, with 'No error details available.'
C16_PushOutcome ==
    (loc.fn = "workflow_push" /\ Ran("workflow_push", "push -u origin")) =>
        LET failed   == loc.tool.rc # 0
            stderr   == loc.tool.stderr
            refspec  == TextContains(stderr, "src refspec")
            rejected == TextContains(stderr, "rejected")
            auth     == \/ TextContains(stderr, "Authentication")
                        \/ TextContains(stderr, "fatal: could not read")
            said(t)  == \E i \in PushExplained : trace[i].what = t
        IN  /\ Cardinality(PushExplained) = 1
            /\ PushExplained = {Len(trace)}
            /\ ~failed => said("Done! Your code is now live on GitHub.")
            /\ (failed /\ refspec) => said("nothing to push yet")
            /\ (failed /\ ~refspec /\ rejected) => said("Push was rejected.")
            /\ (failed /\ ~refspec /\ ~rejected /\ auth) => said("an authentication issue")
            /\ (failed /\ ~refspec /\ ~rejected /\ ~auth /\ strip(stderr) # <<>>) =>
                    said("Push failed with an unexpected error.")
            /\ (failed /\ strip(stderr) = <<>>) =>
                    said("Push failed with an unexpected error. No error details available.")

\* stderr holds both 'src refspec' and 'rejected': the first rule wins
C16_Witness ==
    /\ loc.fn = "workflow_push"
    /\ Ran("workflow_push", "push -u origin")
    /\ loc.tool.rc = 1
    /\ TextContains(loc.tool.stderr, "src refspec")
    /\ TextContains(loc.tool.stderr, "rejected")
    /\ Said("workflow_push", "nothing to push yet")

\* C17: the notes workflow_status prints follow the two columns of every line of the
\* porcelain output: 'Untracked' iff a line starts with ??, 'Modified' iff a line has M
\* in its second column, 'Staged' iff a line has one of M, A, D, R, C in its first
\* column, 'Everything is clean' iff there is no line.
C17_StatusClassification ==
    ( /\ loc.fn = "workflow_status"
      /\ TraceHas(Sub("workflow_status", "status --porcelain", TRUE)) ) =>
        LET lines == loc.porcelain
        IN  /\ Said("workflow_status", "Files listed as 'Untracked'") <=>
                  \E i \in 1..Len(lines) : lines[i][1] = "?" /\ lines[i][2] = "?"
            /\ Said("workflow_status", "Files listed as 'Modified'") <=>
                  \E i \in 1..Len(lines) : lines[i][2] = "M"
            /\ Said("workflow_status", "Files listed as 'Staged'") <=>
                  \E i \in 1..Len(lines) : lines[i][1] \in {"M", "A", "D", "R", "C"}
            /\ Said("workflow_status", "Everything is clean") <=> lines = <<>>

\* C18: when git init succeeded, or the target already held a .git folder, the current
\* directory is the target path; when git init failed, or the user declined to create
\* the missing folder, it is the directory the workflow started in.
C18_WorkingDirectoryOfInit ==
    loc.fn = "workflow_init" =>
        /\ ( \/ TraceHas(Git("workflow_init", "init", TRUE))
             \/ Said("workflow_init", "already a Git repo") ) => cwd = loc.path
        /\ ( \/ TraceHas(Git("workflow_init", "init", FALSE))
             \/ Answered("workflow_init", "create: no") ) => cwd = loc.entry_cwd

\* git init failed in another folder: the program is back where it was
C18_Witness ==
    /\ pc = Pause
    /\ loc.fn = "workflow_init"
    /\ TraceHas(Git("workflow_init", "init", FALSE))
    /\ loc.path # loc.entry_cwd
    /\ cwd = loc.entry_cwd

\* the positions in the trace where workflow_stage_commit ran a git command of the kinds
StageCommitRan(kinds) ==
    { i \in 1..Len(trace) : /\ trace[i].kind = "git"
                            /\ trace[i].fn = "workflow_stage_commit"
                            /\ trace[i].what \in kinds }

\* C19: workflow_stage_commit runs git commit only after it ran git add and the user
\* entered a commit message that is not empty; when git status --porcelain reports a
\* clean working tree it runs neither.
C19_CommitAfterAddAndMessage ==
    loc.fn = "workflow_stage_commit" =>
        /\ \A j \in StageCommitRan({"commit -m"}) :
              /\ \E i \in StageCommitRan({"add .", "add <file>"}) : i < j
              /\ loc.message # ""
        /\ ( /\ TraceHas(Sub("workflow_stage_commit", "status --porcelain", TRUE))
             /\ \A k \in 1..Len(loc.porcelain) : IsBlankLine(loc.porcelain[k]) ) =>
              /\ StageCommitRan({"add .", "add <file>", "commit -m"}) = {}
              /\ pc = Pause

\* one file was staged and committed
C19_Witness ==
    /\ loc.fn = "workflow_stage_commit"
    /\ StageCommitRan({"add <file>"}) # {}
    /\ StageCommitRan({"commit -m"}) # {}
    /\ loc.message = "Fix login bug"
    /\ pc = Pause

\* C20 as the specification states it: on every path of workflow_stage_commit that ends
\* with 'Cancelled' no git add and no git commit was run.
C20_CancelledChangesNothing ==
    ( /\ loc.fn = "workflow_stage_commit"
      /\ \/ Said("workflow_stage_commit", "Cancelled.")
         \/ Said("workflow_stage_commit", "No file specified. Cancelled.")
         \/ Said("workflow_stage_commit", "No message entered. Cancelled.") ) =>
        StageCommitRan({"add .", "add <file>", "commit -m"}) = {}

\* C20, amended: on the paths that end with 'Cancelled' by menu choice 3 or by an empty
\* file name, no git add and no git commit was run; on the path that ends with
\* 'Cancelled' by an empty commit message no git commit was run, but git add was run
\* before: what it staged stays staged.
C20_CancelledCommitsNothing ==
    loc.fn = "workflow_stage_commit" =>
        /\ ( \/ Said("workflow_stage_commit", "Cancelled.")
             \/ Said("workflow_stage_commit", "No file specified. Cancelled.") ) =>
              StageCommitRan({"add .", "add <file>", "commit -m"}) = {}
        /\ Said("workflow_stage_commit", "No message entered. Cancelled.") =>
              /\ StageCommitRan({"commit -m"}) = {}
              /\ Cardinality(StageCommitRan({"add .", "add <file>"})) = 1
              /\ loc.message = ""

\* everything was staged, then the commit message was left empty
C20_Witness ==
    /\ pc = Pause
    /\ Said("workflow_stage_commit", "No message entered. Cancelled.")
    /\ TraceHas(Git("workflow_stage_commit", "add .", TRUE))

\* the places of the trace where workflow_push ran a git command of these kinds
PushRan(kinds) ==
    { i \in 1..Len(trace) : /\ trace[i].kind = "git"
                            /\ trace[i].fn = "workflow_push"
                            /\ trace[i].what \in kinds }

\* C21: in workflow_push, git remote add origin is run only when git remote -v reported
\* no remote and the URL the user entered is not empty; git push is never run when the
\* URL is empty, when git remote add failed, or when the user chose to return to the
\* main menu.
C21_LinkAndPushGuards ==
    loc.fn = "workflow_push" =>
        /\ PushRan({"remote add origin"}) # {} =>
              /\ strip(loc.remotes) = <<>>
              /\ loc.url # ""
              /\ \E i \in PushRan({"remote -v"}) :
                    \A j \in PushRan({"remote add origin"}) : i < j
        /\ \A j \in PushRan({"push -u origin"}) :
              /\ \A i \in PushRan({"remote add origin"}) : i < j /\ trace[i].ok
              /\ strip(loc.remotes) = <<>> => loc.url # ""
        /\ ( \/ Said("workflow_push", "Cancelled.")
             \/ Said("workflow_push", "Failed to add remote.") ) =>
              PushRan({"push -u origin"}) = {}

\* no remote was reported, a URL was entered, the remote was added and the push ran
C21_Witness ==
    /\ pc = Pause
    /\ loc.fn = "workflow_push"
    /\ strip(loc.remotes) = <<>>
    /\ loc.url # ""
    /\ TraceHas(Git("workflow_push", "remote add origin", TRUE))
    /\ PushRan({"push -u origin"}) # {}

\* a remote named origin is configured: git remote -v listed it, or git remote add
\* origin succeeded
OriginConfigured ==
    \/ \E k \in 1..Len(loc.remotes) : loc.remotes[k] # <<>> /\ loc.remotes[k][1] = "origin"
    \/ TraceHas(Git("workflow_push", "remote add origin", TRUE))

\* C22: whenever workflow_push runs git push -u origin <branch>, a remote named origin
\* is configured in the repository, whatever remotes the repository had before.
C22_PushHasOrigin ==
    (loc.fn = "workflow_push" /\ PushRan({"push -u origin"}) # {}) => OriginConfigured

\* the places of the trace where workflow_branch ran a git command of these kinds
BranchRan(kinds) ==
    { i \in 1..Len(trace) : /\ trace[i].kind = "git"
                            /\ trace[i].fn = "workflow_branch"
                            /\ trace[i].what \in kinds }

\* the git commands workflow_branch ran through run_git
BranchRunGit ==
    { i \in 1..Len(trace) : /\ trace[i].kind = "git"
                            /\ trace[i].fn = "workflow_branch"
                            /\ trace[i].via = "run_git" }

\* C23: workflow_branch runs no branch-changing command when the repository has no
\* commit, when the entered branch name is empty, or, for creation, when the name has a
\* space; git checkout -b runs only with a non-empty name without a space in a
\* repository with a commit; 'See all branches' runs only git branch.
C23_BranchRequestsAreUsable ==
    loc.fn = "workflow_branch" =>
        /\ BranchRan({"checkout", "checkout -b"}) # {} =>
              /\ TraceHas(Sub("workflow_branch", "log --oneline -1", TRUE))
              /\ ~TraceHas(Sub("workflow_branch", "log --oneline -1", FALSE))
              /\ loc.branch_name # <<>>
        /\ BranchRan({"checkout -b"}) # {} => ~Contains(loc.branch_name, " ")
        /\ TraceHas(Sub("workflow_branch", "log --oneline -1", FALSE)) => BranchRunGit = {}
        /\ Said("workflow_branch", "Listing all branches.") =>
              /\ BranchRan({"checkout", "checkout -b"}) = {}
              /\ \A i \in BranchRunGit : trace[i].what = "branch"

\* a name without a space was typed with blanks around it, and the branch was created
C23_Witness ==
    /\ pc = Pause
    /\ loc.fn = "workflow_branch"
    /\ loc.branch_name = <<"my-feature">>
    /\ TraceHas(Git("workflow_branch", "checkout -b", TRUE))

\* the step of workflow_merge that runs git merge: the branch it passes is a branch of
\* the repository and is not the branch checked out
MergeStep ==
    ( /\ pc = At("workflow_merge", "pick")
      /\ Len(trace') > Len(trace)
      /\ trace'[Len(trace) + 1].kind = "git"
      /\ trace'[Len(trace) + 1].what = "merge" ) =>
        /\ loc.other_branches # <<>>
        /\ \E i \in 1..Len(loc.repo.branches) : loc.repo.branches[i] = loc'.merge_branch
        /\ loc'.merge_branch # loc.repo.head

\* C24: the branch workflow_merge passes to git merge is always one of the branches of
\* the repository and never the branch checked out, also after the receiving branch
\* was switched in step 1; the list offered at the selection prompt is never empty.
C24_MergesAnotherBranch == [][MergeStep]_vars

====
